---- MODULE Spec2Model ----
(***************************************************************************)
(* Model of the graph tool in src/main.go.  The file holds two variants of *)
(* the program (lines 1-475 and lines 477-777); `variant` selects which    *)
(* one runs.  Vertex indices are 0-based as in the Go code; the TLA+       *)
(* sequences that hold the slices are 1-based, so element i of a slice is  *)
(* s[i+1].                                                                 *)
(***************************************************************************)
EXTENDS Integers, Sequences, FiniteSets, TLC

VARIABLES variant, Graph, Tool, EdgeStart, Selected, MovingVertex, mouseDown,
          printed, last

vars == <<variant, Graph, Tool, EdgeStart, Selected, MovingVertex, mouseDown,
          printed, last>>

(***************************************************************************)
(* Bounds of the model.                                                    *)
(***************************************************************************)
\* most vertices a graph holds
MaxV == 3
\* largest sum of the absolute values of the entries of the matrix under
\* direct calls
MaxWeight == 2
\* most vertices the application's graph holds
MaxAppV == 2
\* largest multiplicity the application's clicks build
MaxMult == 2
\* largest sum of the entries of the matrix the application's clicks build
MaxAppWeight == 4
\* most vertices that carry a colour or a name given by a tool at once
MaxStyled == 1

(***************************************************************************)
(* Values.                                                                 *)
(***************************************************************************)
Nil == <<>>
Ptr(i) == <<i>>
Deref(p) == p[1]

Red == "red"
Green == "green"

\* positions handed to AddVertex by a direct caller
CallPoints == {<<100, 100>>, <<200, 100>>}

\* indices a direct caller passes for a graph of n vertices: one below the
\* range, the range, one above it
Indices(n) == -1 .. n

\* index pairs a direct caller passes: every in-range pair, and pairs whose
\* first, second or both indices are below or above the range
CallPairs(n) ==
    ((0 .. (n - 1)) \X (0 .. (n - 1)))
        \cup {<<-1, 0>>, <<0, -1>>, <<n, 0>>, <<0, n>>, <<-1, n>>}

Abs(x) == IF x < 0 THEN -x ELSE x

RECURSIVE SumSeq(_)
SumSeq(s) == IF s = <<>> THEN 0 ELSE Head(s) + SumSeq(Tail(s))

N(g) == Len(g.Vertices)

Entry(g, i, j) == g.AdjMatrix[i + 1][j + 1]

\* sum of the absolute values of all entries
Weight(g) ==
    SumSeq([i \in 1..Len(g.AdjMatrix) |->
              SumSeq([j \in 1..Len(g.AdjMatrix[i]) |-> Abs(g.AdjMatrix[i][j])])])

\* the matrix within the model's bound
WithinBounds(g) == Weight(g) <= MaxWeight

(***************************************************************************)
(* Graph store.                                                            *)
(***************************************************************************)
\* append(s[:index], s[index+1:]...)
RemoveAt(s, index) ==
    [k \in 1..(Len(s) - 1) |-> IF k <= index THEN s[k] ELSE s[k + 1]]

\* AddVertex without the growth of the existing rows
AddVertexRowsNotGrown(g, x, y, label, clr) ==
    LET vs == Append(g.Vertices, [X |-> x, Y |-> y, Label |-> label, Color |-> clr])
    IN  [g EXCEPT !.Vertices = vs,
                  !.AdjMatrix = Append(g.AdjMatrix, [j \in 1..Len(vs) |-> 0])]

AddVertex(g, x, y, label, clr) ==
    LET vs == Append(g.Vertices, [X |-> x, Y |-> y, Label |-> label, Color |-> clr])
        grown == [i \in 1..Len(g.AdjMatrix) |-> Append(g.AdjMatrix[i], 0)]
    IN  [g EXCEPT !.Vertices = vs,
                  !.AdjMatrix = Append(grown, [j \in 1..Len(vs) |-> 0])]

\* DeleteVertex with the range test off by one (index > len)
DeleteVertexOffByOne(g, index) ==
    IF index < 0 \/ index > Len(g.Vertices)
    THEN g
    ELSE LET rows == RemoveAt(g.AdjMatrix, index)
         IN  [g EXCEPT !.Vertices = RemoveAt(g.Vertices, index),
                       !.AdjMatrix = [i \in 1..Len(rows) |-> RemoveAt(rows[i], index)]]

\* DeleteVertex that cuts the last column instead of column index
DeleteVertexLastColumn(g, index) ==
    IF index < 0 \/ index >= Len(g.Vertices)
    THEN g
    ELSE LET rows == RemoveAt(g.AdjMatrix, index)
         IN  [g EXCEPT !.Vertices = RemoveAt(g.Vertices, index),
                       !.AdjMatrix = [i \in 1..Len(rows) |->
                                         RemoveAt(rows[i], Len(rows[i]) - 1)]]

DeleteVertex(g, index) ==
    IF index < 0 \/ index >= Len(g.Vertices)
    THEN g
    ELSE LET rows == RemoveAt(g.AdjMatrix, index)
         IN  [g EXCEPT !.Vertices = RemoveAt(g.Vertices, index),
                       !.AdjMatrix = [i \in 1..Len(rows) |-> RemoveAt(rows[i], index)]]

\* first variant
DeleteEdge(g, v1, v2) ==
    IF v1 < 0 \/ v2 < 0 \/ v1 >= Len(g.Vertices) \/ v2 >= Len(g.Vertices)
    THEN g
    ELSE IF v1 = v2
         THEN IF Entry(g, v1, v1) > 0
              THEN [g EXCEPT !.AdjMatrix[v1 + 1][v1 + 1] = @ - 1]
              ELSE g
         ELSE [g EXCEPT !.AdjMatrix =
                  [[@ EXCEPT ![v1 + 1][v2 + 1] = @ - 1] EXCEPT ![v2 + 1][v1 + 1] = @ - 1]]

\* first variant
AddEdge(g, v1, v2) ==
    IF v1 < 0 \/ v2 < 0 \/ v1 >= Len(g.Vertices) \/ v2 >= Len(g.Vertices)
    THEN g
    ELSE LET m1 == [g.AdjMatrix EXCEPT ![v1 + 1][v2 + 1] = @ + 1]
         IN  [g EXCEPT !.AdjMatrix =
                  IF v1 # v2 THEN [m1 EXCEPT ![v2 + 1][v1 + 1] = @ + 1] ELSE m1]

\* second variant
DeleteEdge2(g, v1, v2) ==
    IF v1 < 0 \/ v2 < 0 \/ v1 >= Len(g.Vertices) \/ v2 >= Len(g.Vertices)
    THEN g
    ELSE [g EXCEPT !.AdjMatrix[v1 + 1][v2 + 1] = @ - 1]

\* AddEdge2 that mirrors a loop as well
AddEdge2LoopMirrored(g, v1, v2) ==
    IF v1 < 0 \/ v2 < 0 \/ v1 >= Len(g.Vertices) \/ v2 >= Len(g.Vertices)
    THEN g
    ELSE LET m1 == [g.AdjMatrix EXCEPT ![v1 + 1][v2 + 1] = @ + 1]
         IN  [g EXCEPT !.AdjMatrix =
                  IF ~g.IsDirected
                  THEN [m1 EXCEPT ![v2 + 1][v1 + 1] = @ + 1]
                  ELSE m1]

\* second variant
AddEdge2(g, v1, v2) ==
    IF v1 < 0 \/ v2 < 0 \/ v1 >= Len(g.Vertices) \/ v2 >= Len(g.Vertices)
    THEN g
    ELSE LET m1 == [g.AdjMatrix EXCEPT ![v1 + 1][v2 + 1] = @ + 1]
         IN  [g EXCEPT !.AdjMatrix =
                  IF ~g.IsDirected /\ v1 # v2
                  THEN [m1 EXCEPT ![v2 + 1][v1 + 1] = @ + 1]
                  ELSE m1]

\* the method of the variant that runs
GraphDeleteEdge(vr, g, v1, v2) ==
    IF vr = 1 THEN DeleteEdge(g, v1, v2) ELSE DeleteEdge2(g, v1, v2)

GraphAddEdge(vr, g, v1, v2) ==
    IF vr = 1 THEN AddEdge(g, v1, v2) ELSE AddEdge2(g, v1, v2)

(***************************************************************************)
(* Edge geometry.  Coordinates are whole numbers; a sampled curve point is *)
(* kept in hundredths of a unit, and a distance is compared with a limit   *)
(* through its square.                                                     *)
(***************************************************************************)
\* distance below which a click is on an edge path
EdgeHitDist == 10
\* distance below which a click is on a vertex
VertexHitDist == 15
\* control-point step of the parallel-edge hit test
HitStep == 15
\* control-point step of DrawEdges, first variant
DrawStep == 20
\* control-point step of DrawEdges, second variant
DrawStep2 == 15
\* distance of a loop's control points from its vertex
LoopRadius == 60
\* half-width of a loop in degrees (math.Pi/10)
LoopSpread == 18
\* control-point displacement of the loop DrawEdges draws, second variant
LoopFixed == 45
\* samples of a curve: t = 0, 0.001, ... while t <= 1.0, which float64
\* addition leaves after t = 0.999
Samples == 1000

Sq(x) == x * x

\* math.Hypot(x1-x2, y1-y2) < limit
HypotBelow(x1, y1, x2, y2, limit) == Sq(x1 - x2) + Sq(y1 - y2) < Sq(limit)

\* pointToLineDistance(mx, my, x1, y1, x2, y2) < limit
pointToLineDistanceBelow(mx, my, x1, y1, x2, y2, limit) ==
    LET dx == x2 - x1
        dy == y2 - y1
        len2 == Sq(dx) + Sq(dy)
        dot == (mx - x1) * dx + (my - y1) * dy
        cross == (mx - x1) * dy - (my - y1) * dx
    IN  IF len2 = 0 THEN HypotBelow(mx, my, x1, y1, limit)
        ELSE IF dot <= 0 THEN HypotBelow(mx, my, x1, y1, limit)
        ELSE IF dot >= len2 THEN HypotBelow(mx, my, x2, y2, limit)
        ELSE Sq(cross) < Sq(limit) * len2

\* pointToBezierDistance(mx, my, x1, y1, x2, y2, cx, cy) < limit, the control
\* point given doubled (cx2 = 2*cx) so that the midpoint stays whole
pointToBezierDistanceBelow(mx, my, x1, y1, x2, y2, cx2, cy2, limit) ==
    \E s \in 0..(Samples - 1) :
        LET u == Samples - s
            x == (u * u * x1 + u * s * cx2 + s * s * x2) \div 10000
            y == (u * u * y1 + u * s * cy2 + s * s * y2) \div 10000
        IN  Sq(100 * mx - x) + Sq(100 * my - y) < Sq(100 * limit)

\* pointToQuadraticBezierDistance(mx, my, x1, y1, x2, y2, cx1, cy1, cx2, cy2)
\* < limit, the control points given in hundredths relative to (x1, y1)
pointToQuadraticBezierDistanceBelow(mx, my, x1, y1, x2, y2, rx1, ry1, rx2, ry2, limit) ==
    \E s \in 0..(Samples - 1) :
        LET u == Samples - s
            w1 == (3 * u * u * s) \div 10000
            w2 == (3 * u * s * s) \div 10000
            w3 == (s * s * s) \div 10000
            x == 100 * x1 + (w3 * 100 * (x2 - x1) + w1 * rx1 + w2 * rx2) \div 100000
            y == 100 * y1 + (w3 * 100 * (y2 - y1) + w1 * ry1 + w2 * ry2) \div 100000
        IN  Sq(100 * mx - x) + Sq(100 * my - y) < Sq(100 * limit)

\* 100 * LoopRadius * cos and sin of the angles the loops use, in degrees
Cos6000(deg) ==
    CASE deg = -18 -> 5706 [] deg = 18 -> 5706
      [] deg = 72 -> 1854 [] deg = 108 -> -1854
      [] deg = 102 -> -1247 [] deg = 138 -> -4459
      [] deg = 162 -> -5706 [] deg = 198 -> -5706
      [] deg = 222 -> -4459 [] deg = 258 -> -1247
      [] deg = 252 -> -1854 [] deg = 288 -> 1854

Sin6000(deg) ==
    CASE deg = -18 -> -1854 [] deg = 18 -> 1854
      [] deg = 72 -> 5706 [] deg = 108 -> 5706
      [] deg = 102 -> 5869 [] deg = 138 -> 4015
      [] deg = 162 -> 1854 [] deg = 198 -> -1854
      [] deg = 222 -> -4015 [] deg = 258 -> -5869
      [] deg = 252 -> -5706 [] deg = 288 -> -5706

\* offset of the control point of instance k of count parallel edges
ControlOffset(step, count, k) == step * (k - (count \div 2))

\* the control points of loop k of count, in hundredths relative to the
\* vertex: angleOffset = k * (2*pi/count), angleLeft and angleRight
LoopControls(count, k) ==
    LET angleOffset == (k * 360) \div count
        angleLeft == angleOffset - LoopSpread
        angleRight == angleOffset + LoopSpread
    IN  <<Cos6000(angleLeft), Sin6000(angleLeft),
          Cos6000(angleRight), Sin6000(angleRight)>>

(***************************************************************************)
(* Application state.                                                      *)
(***************************************************************************)
ToolAddVertex == 0
ToolAddEdge == 1
ToolDeleteVertex == 2
ToolDeleteEdge == 3
ToolMoveVertex == 4
ToolColorVertex == 5
ToolNameVertex == 6
ToolPrintInfo == 7

NoPrint == <<>>

NewGraph(directed) == [Vertices |-> <<>>, AdjMatrix |-> <<>>, IsDirected |-> directed]

\* the record of the latest call: its name, its arguments, the graph before
\* it and, for a DeleteEdge(a, b) that directly follows an AddEdge(a, b), the
\* graph before that AddEdge
NoCall == [op |-> "none", a |-> 0, b |-> 0, pre |-> <<>>, pre2 |-> <<>>]

Called(op, a, b, g) == [op |-> op, a |-> a, b |-> b, pre |-> <<g>>, pre2 |-> <<>>]

AppInit ==
    /\ Tool = ToolAddVertex
    /\ EdgeStart = Nil
    /\ Selected = Nil
    /\ MovingVertex = Nil
    /\ mouseDown = FALSE
    /\ printed = NoPrint
    /\ last = NoCall

AppUnchanged ==
    UNCHANGED <<variant, Tool, EdgeStart, Selected, MovingVertex, mouseDown, printed>>

(***************************************************************************)
(* Direct calls of the graph store, with any indices.                      *)
(***************************************************************************)
\* a Graph value as a caller may construct it: empty, of either mode where
\* the variant has the mode field
Init ==
    /\ variant \in {1, 2}
    /\ \E d \in BOOLEAN :
          /\ (variant = 1 => d = FALSE)
          /\ Graph = NewGraph(d)
    /\ AppInit

CallAddVertex ==
    /\ N(Graph) < MaxV
    /\ \E p \in CallPoints :
          /\ Graph' = AddVertex(Graph, p[1], p[2], 0, Red)
          /\ last' = Called("AddVertex", 0, 0, Graph)
    /\ AppUnchanged

CallDeleteVertex ==
    /\ \E index \in Indices(N(Graph)) :
          /\ Graph' = DeleteVertex(Graph, index)
          /\ last' = Called("DeleteVertex", index, 0, Graph)
    /\ AppUnchanged

CallAddEdge ==
    /\ \E pr \in CallPairs(N(Graph)) : LET v1 == pr[1] v2 == pr[2] IN
          /\ Graph' = GraphAddEdge(variant, Graph, v1, v2)
          /\ WithinBounds(Graph')
          /\ last' = Called("AddEdge", v1, v2, Graph)
    /\ AppUnchanged

CallDeleteEdge ==
    /\ \E pr \in CallPairs(N(Graph)) : LET v1 == pr[1] v2 == pr[2] IN
          /\ Graph' = GraphDeleteEdge(variant, Graph, v1, v2)
          /\ WithinBounds(Graph')
          /\ last' = [Called("DeleteEdge", v1, v2, Graph) EXCEPT
                         !.pre2 = IF last.op = "AddEdge" /\ last.a = v1 /\ last.b = v2
                                  THEN last.pre ELSE <<>>]
    /\ AppUnchanged

Next == CallAddVertex \/ CallDeleteVertex \/ CallAddEdge \/ CallDeleteEdge

Spec == Init /\ [][Next]_vars

(***************************************************************************)
(* The application: HandleMouseInput, once per frame.                      *)
(***************************************************************************)
\* height of the toolbar zone and width of a toolbar button
ToolbarHeight == 40
ButtonWidth == 100

\* len(toolNames)
NumTools(vr) == IF vr = 1 THEN 8 ELSE 6

\* cursor positions on the canvas: two vertex sites and a point beside the
\* chord between them
VertexPoints == {<<100, 100>>, <<200, 100>>}

CanvasPoints == VertexPoints \cup {<<142, 116>>}

\* cursor positions on the toolbar: the middle of each of nine button slots
ToolbarPoints == {<<ButtonWidth * t + 50, 20>> : t \in 0..8}

\* names typed at the prompt of the name-vertex tool
TypedNames == {0}

\* index of the first vertex within VertexHitDist of the cursor, or -1
FirstNear(g, mx, my) ==
    LET near == {i \in 0..(N(g) - 1) :
                    HypotBelow(g.Vertices[i + 1].X, g.Vertices[i + 1].Y, mx, my,
                               VertexHitDist)}
    IN  IF near = {} THEN -1 ELSE CHOOSE i \in near : \A k \in near : i <= k

\* first pair of a set of pairs in the order of the nested loops
FirstPair(S) ==
    CHOOSE q \in S : \A r \in S : q[1] < r[1] \/ (q[1] = r[1] /\ q[2] <= r[2])

\* the multiplicities and instances the application's clicks build
Instances == {q \in (1..MaxMult) \X (0..(MaxMult - 1)) : q[2] < q[1]}

\* pointToLineDistance below EdgeHitDist, for every cursor and every pair of
\* vertex positions, computed once
ChordTable ==
    [q \in CanvasPoints \X CanvasPoints \X CanvasPoints |->
        pointToLineDistanceBelow(q[1][1], q[1][2], q[2][1], q[2][2], q[3][1], q[3][2],
                                 EdgeHitDist)]

\* pointToBezierDistance below EdgeHitDist for the control point of instance
\* k of count parallel edges, computed once
ParallelTable ==
    [q \in CanvasPoints \X CanvasPoints \X CanvasPoints \X Instances |->
        LET offset == ControlOffset(HitStep, q[4][1], q[4][2])
        IN  pointToBezierDistanceBelow(q[1][1], q[1][2], q[2][1], q[2][2],
                                       q[3][1], q[3][2],
                                       q[2][1] + q[3][1] + 2 * offset,
                                       q[2][2] + q[3][2] - 2 * offset, EdgeHitDist)]

\* pointToQuadraticBezierDistance below EdgeHitDist for loop k of count at a
\* vertex, computed once
LoopTable ==
    [q \in CanvasPoints \X CanvasPoints \X Instances |->
        LET c == LoopControls(q[3][1], q[3][2])
        IN  pointToQuadraticBezierDistanceBelow(q[1][1], q[1][2], q[2][1], q[2][2],
                                                q[2][1], q[2][2],
                                                c[1], c[2], c[3], c[4], EdgeHitDist)]

Position(g, i) == <<g.Vertices[i + 1].X, g.Vertices[i + 1].Y>>

\* the chord test of the delete-edge tool, first variant
ChordHit(g, i, j, mx, my) ==
    ChordTable[<<<<mx, my>>, Position(g, i), Position(g, j)>>]

\* the test of parallel edge k of the delete-edge tool, first variant
ParallelHit(g, i, j, k, mx, my) ==
    ParallelTable[<<<<mx, my>>, Position(g, i), Position(g, j), <<Entry(g, i, j), k>>>>]

\* the test of loop k at vertex i of the delete-edge tool, first variant
LoopHit(g, i, k, mx, my) ==
    LoopTable[<<<<mx, my>>, Position(g, i), <<Entry(g, i, i), k>>>>]

\* the pair the delete-edge tool of the first variant deletes from, or <<>>
DeleteEdgeTarget(g, mx, my) ==
    LET pairs == {q \in (0..(N(g) - 1)) \X (0..(N(g) - 1)) :
                     /\ q[1] # q[2]
                     /\ Entry(g, q[1], q[2]) > 0
                     /\ \/ ChordHit(g, q[1], q[2], mx, my)
                        \/ \E k \in 0..(Entry(g, q[1], q[2]) - 1) :
                              ParallelHit(g, q[1], q[2], k, mx, my)}
        loops == {i \in 0..(N(g) - 1) :
                     /\ Entry(g, i, i) > 0
                     /\ \E k \in 0..(Entry(g, i, i) - 1) : LoopHit(g, i, k, mx, my)}
    IN  IF pairs # {} THEN FirstPair(pairs)
        ELSE IF loops # {} THEN LET i == CHOOSE i \in loops : \A k \in loops : i <= k
                                IN  <<i, i>>
        ELSE <<>>

\* the pair the delete-edge tool of the second variant deletes from, or <<>>
DeleteEdgeTarget2(g, mx, my) ==
    LET pairs == {q \in (0..(N(g) - 1)) \X (0..(N(g) - 1)) :
                     /\ HypotBelow(g.Vertices[q[1] + 1].X, g.Vertices[q[1] + 1].Y,
                                   mx, my, VertexHitDist)
                     /\ q[1] # q[2]
                     /\ Entry(g, q[1], q[2]) > 0}
    IN  IF pairs # {} THEN FirstPair(pairs) ELSE <<>>

\* what printGraphInfo reports
printGraphInfo(g) ==
    [numVertices |-> Len(g.Vertices),
     numEdges |-> SumSeq([i \in 1..Len(g.AdjMatrix) |-> SumSeq(g.AdjMatrix[i])]),
     degrees |-> [i \in 1..Len(g.Vertices) |->
                    SumSeq([j \in 1..Len(g.AdjMatrix[i]) |->
                              IF g.AdjMatrix[i][j] > 0 THEN g.AdjMatrix[i][j] ELSE 0])]]

\* the path of an edge instance: its kind and its control points (for a
\* curve relative to the midpoint of the chord, for a loop in hundredths
\* relative to the vertex)
Segment == [kind |-> "segment", ctrl |-> <<>>]

Curve(offset) == [kind |-> "curve", ctrl |-> <<offset, -offset>>]

LoopCurve(c) == [kind |-> "loop", ctrl |-> c]

\* the path DrawEdges strokes for instance k of count edges of a pair, a
\* loop (i = j) or not; the second variant strokes one fixed curve per loop
DrawnPath(vr, loop, count, k) ==
    IF loop
    THEN IF vr = 1 THEN LoopCurve(LoopControls(count, k))
         ELSE LoopCurve(<<-100 * LoopFixed, -100 * LoopFixed,
                          100 * LoopFixed, -100 * LoopFixed>>)
    ELSE IF count = 1 THEN Segment
    ELSE Curve(ControlOffset(IF vr = 1 THEN DrawStep ELSE DrawStep2, count, k))

\* the paths the delete-edge tool measures the cursor against for a pair of
\* multiplicity count; the second variant measures the cursor against the
\* vertex i only, and against no path
HitTestPaths(vr, loop, count) ==
    IF vr # 1 THEN {}
    ELSE IF loop THEN {LoopCurve(LoopControls(count, k)) : k \in 0..(count - 1)}
    ELSE {Segment} \cup {Curve(ControlOffset(HitStep, count, k)) : k \in 0..(count - 1)}

\* the fields of App the handler reads and writes
AppState ==
    [Graph |-> Graph, Tool |-> Tool, EdgeStart |-> EdgeStart, Selected |-> Selected,
     MovingVertex |-> MovingVertex, printed |-> NoPrint]

\* a click on the toolbar; the handler returns after it
ToolbarClick(vr, app, mx) ==
    LET toolIndex == mx \div ButtonWidth
    IN  IF toolIndex >= 0 /\ toolIndex < NumTools(vr)
        THEN IF vr = 1 /\ toolIndex = ToolPrintInfo
             THEN [app EXCEPT !.printed = <<printGraphInfo(app.Graph)>>]
             ELSE [app EXCEPT !.Tool = toolIndex]
        ELSE app

\* the switch on the tool for a click on the canvas: the new fields, and
\* whether the handler returned inside the switch
CanvasClick(vr, app, mx, my, newName) ==
    LET g == app.Graph
        i == FirstNear(g, mx, my)
        stay == [app |-> app, ret |-> FALSE]
    IN  CASE app.Tool = ToolAddVertex ->
               [app |-> [app EXCEPT !.Graph = AddVertex(g, mx, my, N(g) + 1, Red)],
                ret |-> FALSE]
          [] app.Tool = ToolAddEdge ->
               IF i = -1 THEN stay
               ELSE IF app.EdgeStart = Nil
               THEN [app |-> [app EXCEPT !.EdgeStart = Ptr(i)], ret |-> TRUE]
               ELSE [app |-> [app EXCEPT
                                 !.Graph = GraphAddEdge(vr, g, Deref(app.EdgeStart), i),
                                 !.EdgeStart = Nil],
                     ret |-> TRUE]
          [] app.Tool = ToolDeleteVertex ->
               IF i = -1 THEN stay
               ELSE [app |-> [app EXCEPT !.Graph = DeleteVertex(g, i)], ret |-> TRUE]
          [] app.Tool = ToolDeleteEdge ->
               LET q == IF vr = 1 THEN DeleteEdgeTarget(g, mx, my)
                                  ELSE DeleteEdgeTarget2(g, mx, my)
               IN  IF q = <<>> THEN stay
                   ELSE [app |-> [app EXCEPT !.Graph = GraphDeleteEdge(vr, g, q[1], q[2])],
                         ret |-> TRUE]
          [] app.Tool = ToolColorVertex ->
               IF i = -1 THEN stay
               ELSE [app |-> [app EXCEPT !.Graph.Vertices[i + 1].Color = Green],
                     ret |-> TRUE]
          [] app.Tool = ToolNameVertex ->
               IF i = -1 THEN stay
               ELSE IF vr = 1
               THEN [app |-> [app EXCEPT !.Selected = Ptr(i),
                                         !.Graph.Vertices[i + 1].Label = newName],
                     ret |-> TRUE]
               ELSE [app |-> app, ret |-> TRUE]
          [] OTHER -> stay

\* the part of the handler that runs while the button is down
WhileButtonDown(app, mx, my) ==
    IF app.Tool = ToolMoveVertex
    THEN LET i == FirstNear(app.Graph, mx, my)
             moving == IF i # -1 THEN Ptr(i) ELSE app.MovingVertex
         IN  IF moving # Nil
             THEN [app EXCEPT !.MovingVertex = moving,
                              !.Graph.Vertices[Deref(moving) + 1].X = mx,
                              !.Graph.Vertices[Deref(moving) + 1].Y = my]
             ELSE app
    ELSE app

\* one frame of HandleMouseInput: the cursor, whether the left button went
\* down in this frame, whether it is down, and the name typed if asked for
HandleMouseInput(vr, app, mx, my, justPressed, pressed, newName) ==
    LET clicked == IF ~justPressed THEN [app |-> app, ret |-> FALSE]
                   ELSE IF my < ToolbarHeight
                   THEN [app |-> ToolbarClick(vr, app, mx), ret |-> TRUE]
                   ELSE CanvasClick(vr, app, mx, my, newName)
        held == IF pressed THEN WhileButtonDown(clicked.app, mx, my) ELSE clicked.app
    IN  IF clicked.ret THEN clicked.app
        ELSE IF ~pressed THEN [held EXCEPT !.MovingVertex = Nil]
        ELSE held

\* the application's graph within the model's bounds: the number of
\* vertices, every vertex at one of the vertex sites, the multiplicities,
\* their total, and the number of recoloured or renamed vertices
AppWithinBounds(g) ==
    /\ N(g) <= MaxAppV
    /\ \A i \in 1..N(g) : <<g.Vertices[i].X, g.Vertices[i].Y>> \in VertexPoints
    /\ \A i \in 1..Len(g.AdjMatrix) : \A j \in 1..Len(g.AdjMatrix[i]) :
          g.AdjMatrix[i][j] <= MaxMult
    /\ Weight(g) <= MaxAppWeight
    /\ Cardinality({i \in 1..N(g) : g.Vertices[i].Color # Red
                                       \/ g.Vertices[i].Label \in TypedNames})
          <= MaxStyled

\* the record of the latest frame
Frame(op, mx, my, app) ==
    IF op = "Press" /\ my >= ToolbarHeight /\ app.Tool = ToolDeleteEdge
    THEN Called("DeleteEdgeClick", mx, my, app.Graph)
    ELSE NoCall

Becomes(app) ==
    /\ AppWithinBounds(app.Graph)
    /\ Graph' = app.Graph
    /\ Tool' = app.Tool
    /\ EdgeStart' = app.EdgeStart
    /\ Selected' = app.Selected
    /\ MovingVertex' = app.MovingVertex
    /\ printed' = app.printed
    /\ UNCHANGED variant

InitApp ==
    /\ variant \in {1, 2}
    /\ Graph = NewGraph(FALSE)
    /\ AppInit

\* the frame in which the left button goes down
Press ==
    /\ ~mouseDown
    /\ \E p \in CanvasPoints \cup ToolbarPoints : \E newName \in TypedNames :
          /\ \E app \in {HandleMouseInput(variant, AppState, p[1], p[2], TRUE, TRUE, newName)} :
                Becomes(app)
          /\ last' = Frame("Press", p[1], p[2], AppState)
    /\ mouseDown' = TRUE

\* a frame in which the left button stays down
Hold ==
    /\ mouseDown
    /\ \E p \in CanvasPoints :
          /\ \E app \in {HandleMouseInput(variant, AppState, p[1], p[2], FALSE, TRUE, 0)} :
                Becomes(app)
          /\ last' = Frame("Hold", p[1], p[2], AppState)
    /\ mouseDown' = TRUE

\* a frame in which the left button is up
Release ==
    /\ \E p \in CanvasPoints :
          /\ \E app \in {HandleMouseInput(variant, AppState, p[1], p[2], FALSE, FALSE, 0)} :
                Becomes(app)
          /\ last' = Frame("Release", p[1], p[2], AppState)
    /\ mouseDown' = FALSE

NextApp == Press \/ Hold \/ Release

SpecApp == InitApp /\ [][NextApp]_vars

(***************************************************************************)
(* Properties of the graph store under direct calls.                       *)
(***************************************************************************)
Pre == last.pre[1]

OutOfRange(g, v) == v < 0 \/ v >= N(g)

\* index of a surviving vertex after the vertex at k is deleted
Shift(x, k) == IF x < k THEN x ELSE x - 1

IsSquare(g) ==
    /\ Len(g.AdjMatrix) = N(g)
    /\ \A i \in 1..Len(g.AdjMatrix) : Len(g.AdjMatrix[i]) = N(g)

\* C1: after any sequence of AddVertex, DeleteVertex, AddEdge and DeleteEdge
\* calls every entry of the multiplicity matrix is >= 0; a DeleteEdge on an
\* entry that is 0 leaves it at 0.
C1_EntriesNonNegative ==
    \A i \in 1..Len(Graph.AdjMatrix) : \A j \in 1..Len(Graph.AdjMatrix[i]) :
        Graph.AdjMatrix[i][j] >= 0

\* C2: in undirected mode the matrix is symmetric off the diagonal after any
\* sequence of calls, and every AddEdge(i,j) and DeleteEdge(i,j) with i # j
\* changes (i,j) and (j,i) by the same amount.
C2_UndirectedSymmetric ==
    ~Graph.IsDirected =>
        /\ \A i, j \in 0..(N(Graph) - 1) :
              i # j => Entry(Graph, i, j) = Entry(Graph, j, i)
        /\ (/\ last.op \in {"AddEdge", "DeleteEdge"}
            /\ ~OutOfRange(Pre, last.a) /\ ~OutOfRange(Pre, last.b)
            /\ last.a # last.b)
           => Entry(Graph, last.a, last.b) - Entry(Pre, last.a, last.b)
                = Entry(Graph, last.b, last.a) - Entry(Pre, last.b, last.a)

\* C3: the matrix always has N rows of N entries, N the number of vertices;
\* AddVertex adds one all-zero row and one all-zero column and keeps the
\* other entries; DeleteVertex(k), k in range, leaves N-1 rows and columns.
C3_MatrixSquare ==
    /\ IsSquare(Graph)
    /\ last.op = "AddVertex" =>
          /\ N(Graph) = N(Pre) + 1
          /\ \A i, j \in 0..(N(Pre) - 1) : Entry(Graph, i, j) = Entry(Pre, i, j)
          /\ \A i \in 0..(N(Graph) - 1) :
                /\ Entry(Graph, i, N(Graph) - 1) = 0
                /\ Entry(Graph, N(Graph) - 1, i) = 0
    /\ (last.op = "DeleteVertex" /\ ~OutOfRange(Pre, last.a)) =>
          /\ N(Graph) = N(Pre) - 1
          /\ Len(Graph.AdjMatrix) = Len(Pre.AdjMatrix) - 1

C3_Witness ==
    /\ last.op = "AddVertex"
    /\ N(Graph) = 3
    /\ Weight(Pre) > 0

\* C4: DeleteVertex, AddEdge and DeleteEdge called with an index outside
\* [0,N), for either endpoint, leave the vertex list and the matrix as they
\* were.
C4_OutOfRangeNoOp ==
    /\ (last.op = "DeleteVertex" /\ OutOfRange(Pre, last.a)) => Graph = Pre
    /\ (/\ last.op \in {"AddEdge", "DeleteEdge"}
        /\ (OutOfRange(Pre, last.a) \/ OutOfRange(Pre, last.b)))
       => Graph = Pre

C4_Witness ==
    /\ last.op = "DeleteEdge"
    /\ last.a = 0
    /\ last.b = N(Pre)
    /\ N(Pre) = 2
    /\ Weight(Pre) > 0

\* C5: DeleteVertex(k), k in range, yields N-1 vertices, keeps the surviving
\* vertices in their order and keeps every multiplicity between surviving
\* vertices under the re-indexing x' = x for x < k, x' = x-1 for x > k.
C5_DeleteVertexReindex ==
    (last.op = "DeleteVertex" /\ ~OutOfRange(Pre, last.a)) =>
        LET k == last.a
            S == (0..(N(Pre) - 1)) \ {k}
        IN  /\ N(Graph) = N(Pre) - 1
            /\ IsSquare(Graph)
            /\ \A x \in S : Graph.Vertices[Shift(x, k) + 1] = Pre.Vertices[x + 1]
            /\ \A x, y \in S :
                  Entry(Graph, Shift(x, k), Shift(y, k)) = Entry(Pre, x, y)

C5_Witness ==
    /\ last.op = "DeleteVertex"
    /\ last.a = 1
    /\ N(Pre) = 3
    /\ Entry(Pre, 0, 2) # 0
    /\ Entry(Pre, 1, 2) # 0
    /\ Pre.Vertices[1] # Pre.Vertices[3]

\* C6: AddEdge(i,i), i in range, raises matrix[i][i] by exactly 1 and leaves
\* every other entry and the vertex list unchanged, in undirected and in
\* directed mode.
C6_LoopAddedOnce ==
    (last.op = "AddEdge" /\ last.a = last.b /\ ~OutOfRange(Pre, last.a)) =>
        /\ Entry(Graph, last.a, last.a) = Entry(Pre, last.a, last.a) + 1
        /\ \A i, j \in 0..(N(Pre) - 1) :
              ~(i = last.a /\ j = last.a) => Entry(Graph, i, j) = Entry(Pre, i, j)
        /\ Graph.Vertices = Pre.Vertices
        /\ IsSquare(Graph)

C6_Witness ==
    /\ last.op = "AddEdge"
    /\ last.a = last.b
    /\ ~OutOfRange(Pre, last.a)
    /\ Graph.IsDirected
    /\ Entry(Graph, last.a, last.a) = 2

\* C7: in undirected mode, AddEdge(i,j) directly followed by DeleteEdge(i,j),
\* i # j in range, returns the whole matrix to its state before the AddEdge.
C7_AddDeleteRoundTrip ==
    (/\ last.op = "DeleteEdge"
     /\ last.pre2 # <<>>
     /\ ~Graph.IsDirected
     /\ last.a # last.b
     /\ ~OutOfRange(Pre, last.a) /\ ~OutOfRange(Pre, last.b))
    => Graph.AdjMatrix = last.pre2[1].AdjMatrix

\* the graph with one unit of multiplicity removed from the pair (i, j) and,
\* for an undirected graph, from its mirror
OneUnitRemoved(g, i, j) ==
    [g EXCEPT !.AdjMatrix =
        [r \in 1..Len(g.AdjMatrix) |->
            [c \in 1..Len(g.AdjMatrix[r]) |->
                IF \/ (r = i + 1 /\ c = j + 1)
                   \/ (~g.IsDirected /\ r = j + 1 /\ c = i + 1)
                THEN g.AdjMatrix[r][c] - 1
                ELSE g.AdjMatrix[r][c]]]]

\* the edges of an undirected graph, each pair and each loop counted once
EdgesPresent(g) ==
    SumSeq([i \in 1..Len(g.AdjMatrix) |->
              SumSeq([j \in 1..Len(g.AdjMatrix[i]) |->
                        IF j >= i THEN g.AdjMatrix[i][j] ELSE 0])])

\* C8: the edge count reported for an undirected graph is the number of
\* edges present, a non-loop edge counted once although it occupies (i, j)
\* and (j, i), a loop counted once.
C8_EdgeCountNotDoubled ==
    (printed # NoPrint /\ ~Graph.IsDirected)
    => printed[1].numEdges = EdgesPresent(Graph)

\* C9: a delete-edge click leaves the graph unchanged or removes exactly one
\* unit of multiplicity from one pair (i, j) that had an edge, together with
\* one unit from its mirror (j, i) in an undirected graph, and changes no
\* other entry and no vertex.
C9_DeleteClickRemovesOneUnit ==
    last.op = "DeleteEdgeClick"
    => \/ Graph = Pre
       \/ \E i, j \in 0..(N(Pre) - 1) :
             /\ Entry(Pre, i, j) > 0
             /\ Graph = OneUnitRemoved(Pre, i, j)

\* C10: for every pair (i, j) of multiplicity m > 0 and every instance k in
\* [0, m), the path DrawEdges draws for (m, k) is a path the delete-edge hit
\* test measures for that pair: the same kind and the same control points.
C10_DrawnPathIsHitTested ==
    \A i, j \in 0..(N(Graph) - 1) :
        Entry(Graph, i, j) > 0
        => \A k \in 0..(Entry(Graph, i, j) - 1) :
              DrawnPath(variant, i = j, Entry(Graph, i, j), k)
                  \in HitTestPaths(variant, i = j, Entry(Graph, i, j))

\* the steps the variant uses for the control points of parallel edges: the
\* step of DrawEdges and, in the first variant, the step of the hit test
ParallelSteps(vr) == IF vr = 1 THEN {DrawStep, HitStep} ELSE {DrawStep2}

\* the control-point offsets of the count instances of a pair, by instance
ParallelOffsets(step, count) ==
    [k \in 0..(count - 1) |-> ControlOffset(step, count, k)]

\* C11: for every non-loop pair of multiplicity m >= 2 the control-point
\* offsets of its m instances are pairwise distinct and symmetric about 0
\* (for every instance with offset d there is an instance with offset -d);
\* for m = 3 the middle instance has offset 0 and the outer two have equal
\* and opposite offsets.
C11_OffsetsCentred ==
    /\ \A step \in ParallelSteps(variant) :
          LET o == ParallelOffsets(step, 3)
          IN  o[1] = 0 /\ o[0] = -o[2] /\ o[0] # 0
    /\ \A i, j \in 0..(N(Graph) - 1) :
          (i # j /\ Entry(Graph, i, j) >= 2)
          => \A step \in ParallelSteps(variant) :
                LET m == Entry(Graph, i, j)
                    o == ParallelOffsets(step, m)
                IN  /\ \A k, l \in 0..(m - 1) : k # l => o[k] # o[l]
                    /\ \A k \in 0..(m - 1) : \E l \in 0..(m - 1) : o[l] = -o[k]

\* C12: a pending add-edge start is an index of a vertex of the graph.
C12_EdgeStartInRange ==
    EdgeStart # Nil => Deref(EdgeStart) \in 0..(N(Graph) - 1)

====
